---- MODULE Spec2Model ----
(***************************************************************************)
(* A model of patchwork/api/patch.py: the StateField converter between a   *)
(* State record and its slug, the patch serializers, and the PatchList /   *)
(* PatchDetail endpoints.                                                  *)
(*                                                                         *)
(* Python strings are sequences of one-character strings, so that lower(), *)
(* split() and join() are computed character by character.                 *)
(***************************************************************************)
EXTENDS Integers, Sequences, FiniteSets, TLC

VARIABLES
    states,     \* the State table, in queryset order: rows [id, name]
    tags,       \* project.tags of every project: rows [name, attr_name]
    patches,    \* the Patch table: patch id -> stored attributes
    request,    \* the request (or call) handled last
    response,   \* what it returned
    last_update,\* patch id -> the body of the last successful update request
    nreq        \* number of HTTP requests handled so far

vars == <<states, tags, patches, request, response, last_update, nreq>>

(***************************************************************************)
(* Bounds of the model.                                                    *)
(***************************************************************************)
MaxStates == 2      \* rows of the State table
MaxPatches == 2     \* rows of the Patch table
MaxTags == 2        \* tags of a project
MaxRequests == 2    \* HTTP requests handled in one behaviour

(***************************************************************************)
(* Python's str methods, on the characters the model uses.                 *)
(***************************************************************************)
S1(a) == <<a>>
S2(a, b) == <<a, b>>
S3(a, b, c) == <<a, b, c>>
S4(a, b, c, d) == <<a, b, c, d>>

\* str.lower() on one character
LowerChar(c) ==
    CASE c = "A" -> "a"
      [] c = "B" -> "b"
      [] OTHER -> c

\* str.lower()
str_lower(s) == [i \in 1..Len(s) |-> LowerChar(s[i])]

\* str.split(sep) for a one-character separator: every separator cuts, empty
\* pieces are kept
RECURSIVE str_split(_, _)
str_split(s, sep) ==
    IF \A i \in 1..Len(s) : s[i] # sep
    THEN <<s>>
    ELSE LET k == CHOOSE i \in 1..Len(s) :
                      s[i] = sep /\ \A j \in 1..(i - 1) : s[j] # sep
         IN  <<SubSeq(s, 1, k - 1)>> \o str_split(SubSeq(s, k + 1, Len(s)), sep)

IsNonEmpty(w) == Len(w) > 0

\* str.split() without argument: cut at runs of whitespace, no empty piece
str_split_ws(s) == SelectSeq(str_split(s, " "), IsNonEmpty)

\* sep.join(parts)
RECURSIVE str_join(_, _)
str_join(sep, parts) ==
    IF Len(parts) = 0 THEN <<>>
    ELSE IF Len(parts) = 1 THEN parts[1]
    ELSE parts[1] \o sep \o str_join(sep, Tail(parts))

\* the ORM's name__iexact lookup: equal up to letter case
iexact(a, b) == str_lower(a) = str_lower(b)

(***************************************************************************)
(* StateField                                                              *)
(***************************************************************************)
\* a faulty variant: the hyphens of the slug are left in place
format_state_name_hyphens_kept(state) == state

format_state_name(state) == str_join(S1(" "), str_split(state, "-"))

get_queryset == states

NoState == [id |-> 0, name |-> <<>>]

Result(kind, key, value, name, choices, data_type) ==
    [kind |-> kind, key |-> key, value |-> value, name |-> name,
     choices |-> choices, data_type |-> data_type]

\* what data.split('-') raises for a value of this Python type
SplitRaises(type) ==
    CASE type = "str" -> "none"
      [] type = "bytes" -> "TypeError"         \* bytes.split(str), Python 3
      [] OTHER -> "AttributeError"             \* int, bool, list, dict: no split

\* QuerySet.get(name__iexact=data)
Matches(qs, data) == SelectSeq(qs, LAMBDA x : iexact(x.name, data))

\* a faulty variant: the error lists the slugs of the States
choices_as_slugs(qs) ==
    str_join(S2(",", " "),
             [i \in 1..Len(qs) |-> str_join(S1("-"), str_split_ws(str_lower(qs[i].name)))])

\* the choices of the invalid_choice message
choices_text(qs) ==
    str_join(S2(",", " "), [i \in 1..Len(qs) |-> format_state_name(qs[i].name)])

\* a faulty variant: of several matching rows the first is returned (filter().first())
to_internal_value_first_match(data) ==
    IF SplitRaises(data.type) = "AttributeError"
    THEN Result("raise", "AttributeError", NoState, <<>>, <<>>, "")
    ELSE IF SplitRaises(data.type) = "TypeError"
    THEN Result("fail", "incorrect_type", NoState, <<>>, <<>>, data.type)
    ELSE LET d == format_state_name(data.val)
             m == Matches(get_queryset, d)
         IN  IF Len(m) = 0
             THEN Result("fail", "invalid_choice", NoState, d,
                         choices_text(get_queryset), "")
             ELSE Result("return", "", m[1], <<>>, <<>>, "")

to_internal_value(data) ==
    IF SplitRaises(data.type) = "AttributeError"
    THEN Result("raise", "AttributeError", NoState, <<>>, <<>>, "")
    ELSE IF SplitRaises(data.type) = "TypeError"
    THEN Result("fail", "incorrect_type", NoState, <<>>, <<>>, data.type)
    ELSE LET d == format_state_name(data.val)
             m == Matches(get_queryset, d)
         IN  IF Len(m) = 0
             THEN Result("fail", "invalid_choice", NoState, d,
                         choices_text(get_queryset), "")
             ELSE IF Len(m) > 1
             THEN Result("raise", "MultipleObjectsReturned", NoState, <<>>, <<>>, "")
             ELSE Result("return", "", m[1], <<>>, <<>>, "")

\* a faulty variant: every space becomes a hyphen (lower().replace(' ', '-'))
to_representation_replace(obj) ==
    [i \in 1..Len(obj.name) |->
        IF obj.name[i] = " " THEN "-" ELSE LowerChar(obj.name[i])]

to_representation(obj) == str_join(S1("-"), str_split_ws(str_lower(obj.name)))

Str(s) == [type |-> "str", val |-> s]

(***************************************************************************)
(* The values the model draws from.                                        *)
(***************************************************************************)
StateNames ==
    { S3("A", " ", "b"),        \* words separated by a single space
      S3("a", " ", "B"),        \* the same name in another case
      S3("a", "-", "b"),        \* a hyphen in the name
      S2(" ", "a"),             \* a leading space
      S4("a", " ", " ", "b"),   \* a double space
      S3("a", "_", "1") }       \* underscore and digit

StateTables ==
    UNION { { [i \in 1..k |-> [id |-> i, name |-> f[i]]] : f \in [1..k -> StateNames] }
            : k \in 0..MaxStates }

StringInputs ==
    { S3("a", "-", "b"), S3("A", " ", "B"), S3("a", "_", "1"), S1("a"),
      S2(" ", "a"), S2("-", "a"), S2("a", "b"), S4("a", "-", "-", "b") }

Inputs ==
    { Str(s) : s \in StringInputs }
    \cup { [type |-> "int", val |-> S3("1", "2", "3")],
           [type |-> "list", val |-> <<>>],
           [type |-> "bytes", val |-> S1("a")] }

TagNames == {"reviewed", "tested"}

Projects == {"proj1", "proj2"}

PatchIds == 1..MaxPatches

None == [none |-> TRUE]

Range(seq) == {seq[i] : i \in 1..Len(seq)}

(***************************************************************************)
(* PatchListSerializer and PatchDetailSerializer                           *)
(***************************************************************************)
Uri(path) == [absolute_uri |-> path]

get_mbox(instance) == Uri(<<"mbox", instance.id>>)

\* the dict comprehension of get_tags: a later tag of the same name replaces
\* the earlier one
RECURSIVE TagDict(_, _)
TagDict(instance, ts) ==
    IF Len(ts) = 0 THEN [k \in {} |-> 0]
    ELSE LET x == ts[Len(ts)]
         IN  (x.name :> instance.tag_counts[x.attr_name])
             @@ TagDict(instance, SubSeq(ts, 1, Len(ts) - 1))

\* a faulty variant: a project without tags yields an empty mapping
get_tags_always_dict(instance) == TagDict(instance, tags[instance.project])

get_tags(instance) ==
    IF Len(tags[instance.project]) > 0
    THEN TagDict(instance, tags[instance.project])
    ELSE None

get_check(instance) == instance.combined_check_state

get_checks(instance) == Uri(<<"api-check-list", instance.id>>)

get_headers(patch) ==
    IF patch.headers # "" THEN [message |-> patch.headers] ELSE None

\* PatchListSerializer.Meta
ListFields ==
    <<"id", "url", "project", "msgid", "date", "name", "commit_ref", "pull_url",
      "state", "archived", "hash", "submitter", "delegate", "mbox", "series",
      "check", "checks", "tags">>

\* a faulty variant: name is left out of read_only_fields
ListReadOnlyFields_without_name ==
    <<"project", "msgid", "date", "hash", "submitter", "mbox", "mbox",
      "series", "check", "checks", "tags">>

ListReadOnlyFields ==
    <<"project", "msgid", "date", "name", "hash", "submitter", "mbox", "mbox",
      "series", "check", "checks", "tags">>

ViewName(f) ==
    CASE f = "url" -> "api-patch-detail"
      [] f = "project" -> "api-project-detail"
      [] f = "submitter" -> "api-person-detail"
      [] f = "delegate" -> "api-user-detail"
      [] f = "series" -> "api-series-detail"

\* a faulty variant: the detail serializer keeps the fields of the list serializer
DetailFields_as_list == ListFields

\* PatchDetailSerializer.Meta
DetailFields == ListFields \o <<"headers", "content", "diff">>

DetailReadOnlyFields == ListReadOnlyFields \o <<"headers", "content", "diff">>

StateById(id) == CHOOSE x \in Range(states) : x.id = id

Link(view, key) == IF key = "" THEN None ELSE [view |-> view, key |-> key]

\* the value a serializer field renders for a patch
FieldValue(f, p) ==
    CASE f = "id" -> p.id
      [] f = "url" -> [view |-> ViewName(f), key |-> p.id]
      [] f \in {"project", "submitter", "delegate", "series"} -> Link(ViewName(f), p[f])
      [] f = "state" -> to_representation(StateById(p.state))
      [] f = "mbox" -> get_mbox(p)
      [] f = "check" -> get_check(p)
      [] f = "checks" -> get_checks(p)
      [] f = "tags" -> get_tags(p)
      [] f = "headers" -> get_headers(p)
      [] OTHER -> p[f]

\* Serializer.to_representation: one key per declared field
Represent(fields, p) == [f \in Range(fields) |-> FieldValue(f, p)]

\* the fields an update may set: those declared, less the read-only ones, less
\* the primary key and the identity link, which a model serializer never writes
WritableFields(fields, read_only) ==
    (Range(fields) \ Range(read_only)) \ {"id", "url"}

\* a field the body of a full update (PUT) must carry
RequiredFields == {"state"}

NoRequest == [op |-> "none"]

NoResponse == [op |-> "none"]

EmptyBody == [k \in {} |-> 0]

NoUpdate == [seen |-> FALSE, body |-> EmptyBody]

(***************************************************************************)
(* The stored records the model starts from.                               *)
(***************************************************************************)
AttrName(i) == <<"tag", i, "count">>       \* Tag.attr_name: 'tag_%d_count' % id

AttrNames == {AttrName(i) : i \in 1..MaxTags}

\* project.tags: the tags in id order, or none when the project uses no tags
TagLists ==
    UNION { { [i \in 1..k |-> [name |-> f[i], attr_name |-> AttrName(i)]] :
                f \in [1..k -> TagNames] } : k \in 0..MaxTags }

NewPatch(i, state_id, counts) ==
    [id |-> i,
     project |-> IF i % 2 = 1 THEN "proj1" ELSE "proj2",
     msgid |-> "msgid", date |-> "date", name |-> "name",
     commit_ref |-> "", pull_url |-> "",
     state |-> state_id, archived |-> FALSE,
     hash |-> "hash", submitter |-> "person1", delegate |-> "",
     series |-> "series1",
     headers |-> IF i = 1 THEN "Subject: name" ELSE "",
     content |-> "content", diff |-> "diff",
     tag_counts |-> counts, combined_check_state |-> "pending"]

\* the attributes of the Patch model (the columns and the annotations)
StoredFields == DOMAIN NewPatch(1, 1, [a \in AttrNames |-> 0])

\* the values a request body carries for a key
Submitted(f) ==
    CASE f = "archived" -> {TRUE}
      [] f = "delegate" -> {"user1"}
      [] f = "commit_ref" -> {"c0ffee"}
      [] f = "pull_url" -> {"git://pull"}
      [] f = "name" -> {"renamed"}
      [] f = "id" -> {99}
      [] OTHER -> {"forged"}

OtherKeys == Range(DetailFields) \ {"state"}

\* request bodies apart from the state key: empty, one key, or every key
ExtraParts ==
    {EmptyBody}
    \cup UNION { { f :> v : v \in Submitted(f) } :
                  f \in {"archived", "delegate", "commit_ref", "pull_url", "name"} }
    \cup { [f \in OtherKeys |-> CHOOSE v \in Submitted(f) : TRUE] }

\* the state values the update requests carry (what a JSON body can hold)
UpdateInputs ==
    { Str(S3("a", "-", "b")), Str(S3("A", " ", "B")), Str(S2(" ", "a")),
      Str(S2("a", "b")),
      [type |-> "int", val |-> S3("1", "2", "3")],
      [type |-> "list", val |-> <<>>] }

StateParts == {EmptyBody} \cup { "state" :> d : d \in UpdateInputs }

Bodies == { sp @@ ep : sp \in StateParts, ep \in ExtraParts }

Methods == {"PUT", "PATCH"}

(***************************************************************************)
(* PatchList and PatchDetail                                               *)
(***************************************************************************)
Response(op, pid, status, data, errors, exception) ==
    [op |-> op, pid |-> pid, status |-> status, data |-> data,
     errors |-> errors, exception |-> exception]

Required == Result("fail", "required", NoState, <<>>, <<>>, "")

\* serializer.save(): the validated values of the writable fields are set on
\* the instance, every other attribute is left as stored
Saved(p, writable, body, state_row) ==
    [f \in DOMAIN p |->
        IF f \in writable /\ f \in DOMAIN body
        THEN IF f = "state" THEN state_row.id ELSE body[f]
        ELSE p[f]]

\* the outcome of UpdateAPIView.update for a permitted request
UpdateOutcome(p, method, body) ==
    LET writable == WritableFields(DetailFields, DetailReadOnlyFields)
        given == "state" \in DOMAIN body
        r == IF given THEN to_internal_value(body["state"]) ELSE Required
    IN  IF given /\ r.kind = "raise"
        THEN [patch |-> p,
              response |-> Response("update", p.id, 500, None, None, r.key)]
        ELSE IF given /\ r.kind = "fail"
        THEN [patch |-> p,
              response |-> Response("update", p.id, 400, None, [state |-> r], "")]
        ELSE IF ~given /\ method = "PUT" /\ "state" \in RequiredFields
        THEN [patch |-> p,
              response |-> Response("update", p.id, 400, None, [state |-> r], "")]
        ELSE LET q == Saved(p, writable, body, r.value)
             IN  [patch |-> q,
                  response |-> Response("update", p.id, 200,
                                        Represent(DetailFields, q), None, "")]

\* a faulty variant: the validated values are written to every row of the queryset
UpdatePatch_every_row(pid, method, body) ==
    /\ nreq < MaxRequests
    /\ \E out \in {UpdateOutcome(patches[pid], method, body)} :
           /\ patches' = [i \in PatchIds |->
                            UpdateOutcome(patches[i], method, body).patch]
           /\ response' = out.response
           /\ last_update' = IF out.response.status = 200
                             THEN [last_update EXCEPT
                                      ![pid] = [seen |-> TRUE, body |-> body]]
                             ELSE last_update
    /\ request' = [op |-> "update", pid |-> pid, method |-> method, body |-> body,
                   permitted |-> TRUE]
    /\ nreq' = nreq + 1
    /\ UNCHANGED <<states, tags>>

\* PUT or PATCH on the detail endpoint by a user the permission class lets write
UpdatePatch(pid, method, body) ==
    /\ nreq < MaxRequests
    /\ \E out \in {UpdateOutcome(patches[pid], method, body)} :
           /\ patches' = [patches EXCEPT ![pid] = out.patch]
           /\ response' = out.response
           /\ last_update' = IF out.response.status = 200
                             THEN [last_update EXCEPT
                                      ![pid] = [seen |-> TRUE, body |-> body]]
                             ELSE last_update
    /\ request' = [op |-> "update", pid |-> pid, method |-> method, body |-> body,
                   permitted |-> TRUE]
    /\ nreq' = nreq + 1
    /\ UNCHANGED <<states, tags>>

\* PUT or PATCH refused by the permission class, before the body is read
UpdateDenied(pid, method) ==
    /\ nreq < MaxRequests
    /\ response' = Response("update", pid, 403, None, None, "")
    /\ request' = [op |-> "update", pid |-> pid, method |-> method,
                   body |-> EmptyBody, permitted |-> FALSE]
    /\ nreq' = nreq + 1
    /\ UNCHANGED <<states, tags, patches, last_update>>

\* GET on the detail endpoint
RetrievePatch(pid) ==
    /\ nreq < MaxRequests
    /\ response' = Response("retrieve", pid, 200,
                            Represent(DetailFields, patches[pid]), None, "")
    /\ request' = [op |-> "retrieve", pid |-> pid]
    /\ nreq' = nreq + 1
    /\ UNCHANGED <<states, tags, patches, last_update>>

\* GET on the list endpoint
ListPatches ==
    /\ nreq < MaxRequests
    /\ response' = Response("list", 0, 200,
                            [i \in PatchIds |-> Represent(ListFields, patches[i])],
                            None, "")
    /\ request' = [op |-> "list"]
    /\ nreq' = nreq + 1
    /\ UNCHANGED <<states, tags, patches, last_update>>

FixtureTags ==
    [p \in Projects |->
        IF p = "proj1" THEN <<>>
        ELSE <<[name |-> "reviewed", attr_name |-> AttrName(1)]>>]

FixtureCounts == [a \in AttrNames |-> a[2]]

\* the State tables of the endpoint model: at least one row, for the patches
\* to refer to
EndpointTables ==
    {t \in StateTables :
        /\ Len(t) > 0
        /\ \A i \in 1..Len(t) :
              t[i].name \in {S3("A", " ", "b"), S3("a", "-", "b"), S2(" ", "a")}}

Init ==
    /\ states \in EndpointTables
    /\ tags = FixtureTags
    /\ patches = [i \in PatchIds |->
                    NewPatch(i, states[((i - 1) % Len(states)) + 1].id, FixtureCounts)]
    /\ request = NoRequest
    /\ response = NoResponse
    /\ last_update = [i \in PatchIds |-> NoUpdate]
    /\ nreq = 0

Next ==
    \/ \E pid \in PatchIds, method \in Methods, body \in Bodies :
          UpdatePatch(pid, method, body)
    \/ \E pid \in PatchIds, method \in Methods : UpdateDenied(pid, method)
    \/ \E pid \in PatchIds : RetrievePatch(pid)
    \/ ListPatches

Spec == Init /\ [][Next]_vars

(***************************************************************************)
(* Properties of the endpoints, checked under Spec.                        *)
(***************************************************************************)
\* s with every character a replaced by b
ReplaceChar(s, a, b) == [i \in 1..Len(s) |-> IF s[i] = a THEN b ELSE s[i]]

SameLetter(c, d) == c = d \/ {c, d} \in {{"a", "A"}, {"b", "B"}}

EqualIgnoringCase(s, t) ==
    Len(s) = Len(t) /\ \A i \in 1..Len(s) : SameLetter(s[i], t[i])

\* the States a string input denotes: its hyphens read as spaces, letter case
\* ignored, the whole name compared
Denoted(d) ==
    {i \in 1..Len(states) :
        EqualIgnoringCase(ReplaceChar(d, "-", " "), states[i].name)}

Lowercased(s) ==
    [i \in 1..Len(s) |-> IF s[i] = "A" THEN "a" ELSE IF s[i] = "B" THEN "b" ELSE s[i]]

RECURSIVE DropLeadingSpaces(_)
DropLeadingSpaces(s) ==
    IF Len(s) > 0 /\ s[1] = " " THEN DropLeadingSpaces(Tail(s)) ELSE s

\* the words of s (maximal runs of characters other than the space), joined by
\* single hyphens
RECURSIVE HyphenatedWords(_)
HyphenatedWords(s) ==
    LET t == DropLeadingSpaces(s)
    IN  IF \A i \in 1..Len(t) : t[i] # " "
        THEN t
        ELSE LET k == CHOOSE i \in 1..Len(t) :
                          t[i] = " " /\ \A j \in 1..(i - 1) : t[j] # " "
                 rest == HyphenatedWords(SubSeq(t, k, Len(t)))
             IN  IF Len(rest) = 0
                 THEN SubSeq(t, 1, k - 1)
                 ELSE SubSeq(t, 1, k - 1) \o <<"-">> \o rest

ListKeys ==
    {"id", "url", "project", "msgid", "date", "name", "commit_ref", "pull_url",
     "state", "archived", "hash", "submitter", "delegate", "mbox", "series",
     "check", "checks", "tags"}

DetailOnlyKeys == {"headers", "content", "diff"}

UpdatableKeys == {"state", "archived", "delegate", "commit_ref", "pull_url"}

IsUpdateStep == request'.op = "update" /\ nreq' # nreq

\* what an update step does to the patch it addresses, W being the keys an
\* update can set: a successful update stores the submitted value of every
\* key of W in the body, and no update changes anything else of the patch,
\* stored or rendered
UpdateSets(W) ==
    IsUpdateStep =>
        LET pid == request'.pid
            body == request'.body
            old == patches[pid]
            new == patches'[pid]
        IN  /\ \A f \in StoredFields \ W : new[f] = old[f]
            /\ \A f \in (ListKeys \cup DetailOnlyKeys) \ W :
                  FieldValue(f, new) = FieldValue(f, old)
            /\ response'.status = 200 =>
                  /\ \A f \in (W \ {"state"}) \cap DOMAIN body : new[f] = body[f]
                  /\ ("state" \in W /\ "state" \in DOMAIN body) =>
                        new.state \in {states[i].id : i \in Denoted(body["state"].val)}

\* C4 as stated: the fields an update can change are exactly state, archived,
\* delegate, commit_ref, pull_url and name; every other field keeps its value
\* after any update, whatever the body contains.
C4_NameIsUpdatable == [][UpdateSets(UpdatableKeys \cup {"name"})]_vars

\* C4 amended: the fields an update can change are exactly state, archived,
\* delegate, commit_ref and pull_url; every other field, name included, keeps
\* its value after any update, whatever the body contains.
C4_UpdatableFields == [][UpdateSets(UpdatableKeys)]_vars

C4_Witness ==
    /\ request.op = "update"
    /\ response.status = 200
    /\ DOMAIN request.body = ListKeys \cup DetailOnlyKeys
    /\ patches[request.pid].name = "name"
    /\ patches[request.pid].archived
    /\ patches[request.pid].commit_ref = "c0ffee"
    /\ patches[request.pid].pull_url = "git://pull"
    /\ patches[request.pid].delegate = "user1"

\* a state value that StateField does not accept: not a string, or the slug of
\* no State
RejectedStateValue(d) == d.type # "str" \/ Denoted(d.val) = {}

\* C5: a permitted update whose state value is an unknown slug or of the wrong
\* type returns a validation error for state and leaves the stored patches
\* as they were.
C5_InvalidStateRejected ==
    [][(/\ IsUpdateStep
        /\ request'.permitted
        /\ "state" \in DOMAIN request'.body
        /\ RejectedStateValue(request'.body["state"]))
          => (/\ response'.status = 400
              /\ response'.errors # None
              /\ response'.errors.state.key \in {"invalid_choice", "incorrect_type"}
              /\ patches' = patches)]_vars

\* C6: every list response has, for every patch, exactly the list keys (so
\* never headers, content or diff), and every detail response has those keys
\* and headers, content and diff, headers being null when the patch stores no
\* header blob.
C6_ResponseKeys ==
    /\ (response.op = "list" /\ response.status = 200) =>
          /\ DOMAIN response.data = DOMAIN patches
          /\ \A i \in DOMAIN response.data :
                /\ DOMAIN response.data[i] = ListKeys
                /\ DOMAIN response.data[i] \cap DetailOnlyKeys = {}
    /\ (response.op \in {"retrieve", "update"} /\ response.status = 200) =>
          /\ DOMAIN response.data = ListKeys \cup DetailOnlyKeys
          /\ patches[response.pid].headers = "" => response.data["headers"] = None

C6_Witness ==
    /\ response.op = "retrieve"
    /\ response.status = 200
    /\ patches[response.pid].headers = ""
    /\ response.data["headers"] = None
    /\ response.data["content"] = "content"
    /\ response.data["diff"] = "diff"

\* a submitted value as the detail representation renders it
Rendered(f, v) ==
    IF f = "delegate" THEN [view |-> "api-user-detail", key |-> v] ELSE v

\* the representation data reports the values of body, the state as Slug
\* renders the name of the State the body's state value denotes
Reports(data, body, Slug(_)) ==
    /\ "state" \in DOMAIN body =>
          /\ Denoted(body["state"].val) # {}
          /\ \A i \in Denoted(body["state"].val) :
                data["state"] = Slug(states[i].name)
    /\ \A f \in (UpdatableKeys \ {"state"}) \cap DOMAIN body :
          data[f] = Rendered(f, body[f])

\* the response of a successful update, and of every retrieve that follows it
\* before the next successful update of the patch, reports the update's values
ReportedAfterUpdate(Slug(_)) ==
    /\ (request.op = "update" /\ response.status = 200) =>
          Reports(response.data, request.body, Slug)
    /\ (request.op = "retrieve" /\ last_update[request.pid].seen) =>
          Reports(response.data, last_update[request.pid].body, Slug)

SpacesAsHyphens(n) == ReplaceChar(Lowercased(n), " ", "-")

WordsHyphenated(n) == HyphenatedWords(Lowercased(n))

\* C8 as stated: after a successful update with state value d, the response
\* and every later retrieve report state as the matched State's name
\* lowercased with spaces replaced by hyphens, and the other submitted
\* writable fields as submitted.
C8_SlugReplacesSpaces == ReportedAfterUpdate(SpacesAsHyphens)

\* C8 amended: they report state as the matched State's name lowercased, its
\* words (runs of non-space characters) joined by single hyphens, which is
\* the name with spaces replaced by hyphens only when the name has no space
\* at either end and no two spaces in a row; and the other submitted writable
\* fields as submitted.
C8_SlugJoinsWords == ReportedAfterUpdate(WordsHyphenated)

C8_Witness ==
    /\ request.op = "retrieve"
    /\ last_update[request.pid].seen
    /\ DOMAIN last_update[request.pid].body = {"state", "archived"}
    /\ last_update[request.pid].body["state"] = Str(S2(" ", "a"))
    /\ patches[request.pid].state = 2
    /\ response.data["state"] = S1("a")
    /\ response.data["archived"]

\* C10: no request creates or deletes a Patch or a State, list and retrieve
\* requests leave every patch as stored, and an update leaves every patch but
\* the one it addresses as stored.
C10_Frame ==
    [][/\ DOMAIN patches' = DOMAIN patches
       /\ states' = states
       /\ request'.op \in {"list", "retrieve"} => patches' = patches
       /\ request'.op = "update" =>
             \A q \in DOMAIN patches : q # request'.pid => patches'[q] = patches[q]]_vars

C10_Witness ==
    /\ request.op = "update"
    /\ response.status = 200
    /\ request.pid = 1
    /\ patches[1].archived
    /\ ~patches[2].archived
    /\ nreq = MaxRequests

(***************************************************************************)
(* StateField alone: any State table, any input.                           *)
(***************************************************************************)
CallToInternalValue(data) ==
    /\ request' = [op |-> "to_internal_value", data |-> data]
    /\ response' = to_internal_value(data)
    /\ UNCHANGED <<states, tags, patches, last_update, nreq>>

CallToRepresentation(i) ==
    /\ request' = [op |-> "to_representation", obj |-> states[i]]
    /\ response' = to_representation(states[i])
    /\ UNCHANGED <<states, tags, patches, last_update, nreq>>

\* to_internal_value(to_representation(obj))
CallRoundTrip(i) ==
    /\ request' = [op |-> "round_trip", obj |-> states[i]]
    /\ response' = to_internal_value(Str(to_representation(states[i])))
    /\ UNCHANGED <<states, tags, patches, last_update, nreq>>

InitField ==
    /\ states \in StateTables
    /\ tags = FixtureTags
    /\ patches = [i \in {} |-> 0]
    /\ request = NoRequest
    /\ response = NoResponse
    /\ last_update = [i \in {} |-> 0]
    /\ nreq = 0

NextField ==
    \/ \E data \in Inputs : CallToInternalValue(data)
    \/ \E i \in 1..Len(states) : CallToRepresentation(i)
    \/ \E i \in 1..Len(states) : CallRoundTrip(i)

SpecField == InitField /\ [][NextField]_vars

(***************************************************************************)
(* Properties of StateField, checked under SpecField.                      *)
(***************************************************************************)
WordChars == {"a", "A", "b", "B", "1", "_"}

\* only letters, digits, underscores and spaces, and no two spaces in a row
OnlyWordCharsAndSingleSpaces(n) ==
    /\ \A i \in 1..Len(n) : n[i] \in WordChars \cup {" "}
    /\ \A i \in 1..(Len(n) - 1) : ~(n[i] = " " /\ n[i + 1] = " ")

\* no space at either end
NoOuterSpace(n) == Len(n) > 0 /\ n[1] # " " /\ n[Len(n)] # " "

\* no other row of the State table has the same name up to letter case
NoCaseTwin(obj) ==
    \A i \in 1..Len(states) :
        states[i].id # obj.id => ~EqualIgnoringCase(states[i].name, obj.name)

\* words of letters, digits and underscores separated by single spaces
WordsAndSingleSpaces(n) ==
    OnlyWordCharsAndSingleSpaces(n) /\ NoOuterSpace(n)

\* C1 as stated: for every stored State whose name has only letters, digits,
\* underscores and single spaces, whatever the other rows of the State table
\* are, to_internal_value(to_representation(state)) returns that State.
C1_RoundTripAnyTable ==
    (request.op = "round_trip" /\ WordsAndSingleSpaces(request.obj.name))
        => (response.kind = "return" /\ response.value = request.obj)

\* C1 amended: the round trip returns the State whose name is words of
\* letters, digits and underscores separated by single spaces, provided no
\* other stored State has the same name up to letter case.
C1_RoundTrip ==
    (/\ request.op = "round_trip"
     /\ WordsAndSingleSpaces(request.obj.name)
     /\ NoCaseTwin(request.obj))
        => (response.kind = "return" /\ response.value = request.obj)

C1_Witness ==
    /\ request.op = "round_trip"
    /\ request.obj.name = S3("A", " ", "b")
    /\ Len(states) = MaxStates
    /\ NoCaseTwin(request.obj)
    /\ response.kind = "return"
    /\ response.value = request.obj

\* C2 as stated: a string matching no State fails with invalid_choice, the
\* error carrying the input as given and one slug (as to_representation
\* renders it) per State.
C2_ChoicesAreSlugs ==
    (/\ request.op = "to_internal_value"
     /\ request.data.type = "str"
     /\ Denoted(request.data.val) = {})
        => (/\ response.kind = "fail"
            /\ response.key = "invalid_choice"
            /\ response.name = request.data.val
            /\ response.choices =
                   str_join(S2(",", " "),
                            [i \in 1..Len(states) |-> to_representation(states[i])]))

\* C2 amended: a string matching no State fails with invalid_choice; the error
\* names the input with its hyphens replaced by spaces, and lists one entry per
\* State in queryset order, each the State's name with its hyphens replaced by
\* spaces (letter case and spaces as stored).
C2_ChoicesAreNames ==
    (/\ request.op = "to_internal_value"
     /\ request.data.type = "str"
     /\ Denoted(request.data.val) = {})
        => (/\ response.kind = "fail"
            /\ response.key = "invalid_choice"
            /\ response.name = ReplaceChar(request.data.val, "-", " ")
            /\ response.choices =
                   str_join(S2(",", " "),
                            [i \in 1..Len(states) |->
                                ReplaceChar(states[i].name, "-", " ")]))

C2_Witness ==
    /\ request.op = "to_internal_value"
    /\ request.data = Str(S4("a", "-", "-", "b"))
    /\ Len(states) = MaxStates
    /\ states[1].name = S3("A", " ", "b")
    /\ states[2].name = S3("a", "-", "b")
    /\ response.key = "invalid_choice"

\* C3: an input that is not a string fails with incorrect_type, and with
\* nothing else.
C3_IncorrectType ==
    (request.op = "to_internal_value" /\ request.data.type # "str")
        => (response.kind = "fail" /\ response.key = "incorrect_type")

\* C9 as stated: for a string input and any State table, a State is returned
\* exactly when the input, hyphens read as spaces, is its whole name up to
\* letter case.
C9_ReturnsEveryMatch ==
    (request.op = "to_internal_value" /\ request.data.type = "str")
        => \A i \in 1..Len(states) :
              (response.kind = "return" /\ response.value = states[i])
                  <=> i \in Denoted(request.data.val)

\* C9 amended: a State is returned exactly when the input, hyphens read as
\* spaces, is its whole name up to letter case and is the name of no other
\* stored State up to letter case; nothing is returned for a part of a name.
C9_ReturnsTheOnlyMatch ==
    (request.op = "to_internal_value" /\ request.data.type = "str")
        => \A i \in 1..Len(states) :
              (response.kind = "return" /\ response.value = states[i])
                  <=> Denoted(request.data.val) = {i}

C9_Witness ==
    /\ request.op = "to_internal_value"
    /\ request.data = Str(S3("a", "-", "b"))
    /\ Len(states) = MaxStates
    /\ states[1].name = S3("a", "-", "b")
    /\ states[2].name = S3("A", " ", "b")
    /\ response.kind = "return"
    /\ response.value = states[2]

(***************************************************************************)
(* get_tags alone: any tags of the projects, any tag counts of the patches. *)
(***************************************************************************)
CallGetTags(pid) ==
    /\ request' = [op |-> "get_tags", pid |-> pid]
    /\ response' = get_tags(patches[pid])
    /\ UNCHANGED <<states, tags, patches, last_update, nreq>>

InitTags ==
    /\ states = <<[id |-> 1, name |-> S3("A", " ", "b")]>>
    /\ tags \in [Projects -> TagLists]
    /\ \E counts \in [AttrNames -> 0..1] :
          patches = [i \in PatchIds |->
                       NewPatch(i, 1, [a \in AttrNames |-> counts[a] + i - 1])]
    /\ request = NoRequest
    /\ response = NoResponse
    /\ last_update = [i \in PatchIds |-> NoUpdate]
    /\ nreq = 0

NextTags == \E pid \in PatchIds : CallGetTags(pid)

SpecTags == InitTags /\ [][NextTags]_vars

(***************************************************************************)
(* Properties of get_tags, checked under SpecTags.                         *)
(***************************************************************************)
TagsOf(pid) == tags[patches[pid].project]

\* C7 as stated: None for a project without tags, otherwise a mapping with
\* exactly one key per tag of the project, the tag's name, whose value is the
\* patch's attribute named by that tag's attr_name.
C7_OneKeyPerTag ==
    request.op = "get_tags" =>
        LET p == patches[request.pid]
            ts == TagsOf(request.pid)
        IN  IF Len(ts) = 0
            THEN response = None
            ELSE /\ response # None
                 /\ Cardinality(DOMAIN response) = Len(ts)
                 /\ \A i \in 1..Len(ts) :
                       /\ ts[i].name \in DOMAIN response
                       /\ response[ts[i].name] = p.tag_counts[ts[i].attr_name]

\* the last tag of the list that bears the name
LastNamed(ts, name) ==
    CHOOSE i \in 1..Len(ts) :
        ts[i].name = name /\ \A j \in (i + 1)..Len(ts) : ts[j].name # name

\* C7 amended: None for a project without tags, otherwise a mapping whose keys
\* are the names of the project's tags, one key per distinct name, the value
\* under a name being the patch's attribute named by the attr_name of the last
\* tag of that name (so one key per tag, with that tag's value, when the tags
\* have distinct names).
C7_OneKeyPerTagName ==
    request.op = "get_tags" =>
        LET p == patches[request.pid]
            ts == TagsOf(request.pid)
        IN  IF Len(ts) = 0
            THEN response = None
            ELSE /\ response # None
                 /\ DOMAIN response = {ts[i].name : i \in 1..Len(ts)}
                 /\ \A n \in DOMAIN response :
                       response[n] = p.tag_counts[ts[LastNamed(ts, n)].attr_name]

C7_Witness ==
    /\ request.op = "get_tags"
    /\ Len(TagsOf(request.pid)) = MaxTags
    /\ TagsOf(request.pid)[1].name # TagsOf(request.pid)[2].name
    /\ Cardinality(DOMAIN response) = MaxTags
    /\ response[TagsOf(request.pid)[1].name] # response[TagsOf(request.pid)[2].name]

====
